---- MODULE Spec2Model ----
(***************************************************************************)
(* Omni-Doc: the LangGraph workflow (graph/main_graph.py, graph/routing.py,*)
(* nodes/*.py, agents/*.py) and the state reducers (models/state.py).      *)
(*                                                                         *)
(* Three specifications share the module:                                  *)
(*   Spec       one run of the compiled graph, one action per node; an     *)
(*              action is the node body, the reducer merge of its update   *)
(*              and the router of its outgoing edge;                       *)
(*   MergeSpec  merge_findings applied to bounded input lists;             *)
(*   RouteSpec  the routers applied to constructed states.                 *)
(***************************************************************************)
EXTENDS Integers, Sequences, FiniteSets, TLC

(***************************************************************************)
(* Bounds of the model                                                     *)
(***************************************************************************)
\* max_retries is drawn from 1..MaxRetriesBound (config.py allows 1..10)
MaxRetriesBound == 2
\* the number of findings the LLM answers of one run of the graph carry in
\* total; a run is followed as long as its answers stay within it
MaxRunFindings == 2
\* Len(left) + Len(right) of the lists handed to merge_findings in MergeSpec
MaxMergeLen == 2
\* the longest agents_needed list handed to the routers in RouteSpec
MaxNeededLen == 3
\* the largest retry_count of a constructed router state in RouteSpec
MaxRouteRetry == 4

\* OrderSpec: findings in the two arguments of merge_findings together
MaxOrderLen == 3

\* CommentSpec: comments on the pull request before the call
MaxComments == 2

\* ServerSpec: calls of analyze_pr
MaxAnalyses == 2

\* ConcurrentSpec: calls of update_or_create_comment on one pull request
MaxCallers == 2

(***************************************************************************)
(* Values                                                                  *)
(***************************************************************************)
\* Python's None, for the Optional[str] fields
NoneVal == "<None>"

\* bool(x) of an Optional[str]: None and "" are falsy
Truthy(x) == x # NoneVal /\ x # ""

AgentNames == {"technical_writer", "visual_architect", "correction"}

Severities == {"critical", "high", "medium", "low", "info"}

\* _SEVERITY_ORDER.get(severity, 4)
SeverityRank(sev) ==
    CASE sev = "critical" -> 0
      [] sev = "high" -> 1
      [] sev = "medium" -> 2
      [] sev = "low" -> 3
      [] OTHER -> 4

(***************************************************************************)
(* State.  Each specification moves its own variables and leaves the       *)
(* others at their idle values.                                            *)
(***************************************************************************)
\* MergeSpec: the two lists handed to merge_findings, its result and its
\* result on the same lists the other way round
VARIABLES m_left, m_right, m_out, m_swapped, m_phase

mvars == <<m_left, m_right, m_out, m_swapped, m_phase>>

\* RouteSpec: a constructed state, the node the walk stands at, the node
\* it came from and the sub-task nodes passed since the last auditor
VARIABLES r_needed, r_diagrams, r_errors, r_passed, r_retry, r_ceiling,
          r_node, r_from, r_trace

rvars == <<r_needed, r_diagrams, r_errors, r_passed, r_retry, r_ceiling,
           r_node, r_from, r_trace>>

\* CommentSpec: the comments of the pull request on GitHub, the comments
\* it had before the call, the body handed to update_or_create_comment,
\* the position in the call, the local existing_id, the calls of
\* client.post_comment made and the URL returned
VARIABLES c_comments, c_before, c_body, c_phase, c_existing_id, c_calls,
          c_url

cvars == <<c_comments, c_before, c_body, c_phase, c_existing_id, c_calls,
           c_url>>

\* ServerSpec: the dict _analyses, the position of the background task
\* of each analysis id, the call of analyze_pr under way, the ids that
\* analyze_pr has returned, the last answer of get_analysis_status and
\* the last outcome of list_findings or get_analysis_result
VARIABLES s_analyses, s_task, s_call, s_returned, s_reply, s_answer

svars == <<s_analyses, s_task, s_call, s_returned, s_reply, s_answer>>

\* ConcurrentSpec: the comments of the pull request on GitHub and, for
\* each call of update_or_create_comment, its body, its position and its
\* local existing_id
VARIABLES k_comments, k_body, k_phase, k_existing_id

kvars == <<k_comments, k_body, k_phase, k_existing_id>>

\* the variables of the specifications outside the graph, the merge and
\* the routers
xvars == <<cvars, svars, kvars>>

\* Spec: the workflow state (OmniDocState) and the position of the driver
VARIABLES
    node,
    max_retries,            \* get_settings().max_retries
    pr_url, dry_run, enable_diagrams,                     \* run input
    pr_metadata, file_changes,                            \* extractor
    documentation_files, documentation_status,            \* repo_scanner
    findings, agent_outputs, agents_needed,               \* auditor, agents
    validation_passed, validation_feedback, retry_count,  \* critic, auditor
    markdown_report, comment_url,                         \* aggregator
    errors,
    \* history of the run, read by the properties only
    auditor_calls,          \* number of invocations of analyze_changes
    pass_trace,             \* sub-task nodes invoked since the last auditor
    last,                   \* the node invoked last and how its call ended
    only_rejections,        \* the validator rejected whenever it was asked
    produced,               \* number of findings the LLM answers carried
    text_merged,            \* keys for which a finding with a text was merged
    keys_merged,            \* keys of the findings merged so far
    executed                \* invocations of each node outside the retry loop

inputs == <<max_retries, pr_url, dry_run, enable_diagrams>>

channels ==
    <<pr_metadata, file_changes, documentation_files, documentation_status,
      findings, agent_outputs, agents_needed, validation_passed,
      validation_feedback, retry_count, markdown_report, comment_url, errors>>

history ==
    <<auditor_calls, pass_trace, last, only_rejections, produced, text_merged,
      keys_merged, executed>>

gvars == <<node, inputs, channels, history>>

vars == <<gvars, mvars, rvars, xvars>>

MergeIdle ==
    /\ m_left = <<>> /\ m_right = <<>> /\ m_out = <<>> /\ m_swapped = <<>>
    /\ m_phase = "idle"

RouteIdle ==
    /\ r_needed = <<>> /\ r_diagrams = FALSE /\ r_errors = <<>>
    /\ r_passed = FALSE /\ r_retry = 0 /\ r_ceiling = 1
    /\ r_node = "idle" /\ r_from = "idle" /\ r_trace = <<>>

CommentIdle ==
    /\ c_comments = <<>> /\ c_before = <<>> /\ c_body = <<>>
    /\ c_phase = "idle" /\ c_existing_id = NoneVal /\ c_calls = <<>>
    /\ c_url = NoneVal

\* uuid4 values: those analyze_pr draws and one it never draws
AnalysisIds == {"uuid-1", "uuid-2", "uuid-3"}
UnknownId == "uuid-unknown"

NoCall == [id |-> NoneVal, pc |-> "idle"]
NoReply ==
    [analysis_id |-> NoneVal, status |-> NoneVal, progress |-> 0,
     current_step |-> NoneVal, error |-> NoneVal, was_returned |-> FALSE,
     was_registered |-> FALSE]

\* an Optional[dict] is a sequence of no element (None) or of one (the
\* dict)
NoResult == <<>>

NoAnswer ==
    [tool |-> NoneVal, status_then |-> NoneVal, was_registered |-> FALSE,
     outcome |-> [raised |-> FALSE]]

ServerIdle ==
    /\ s_analyses = <<>>
    /\ s_task = [id \in AnalysisIds |-> "none"]
    /\ s_call = NoCall
    /\ s_returned = {}
    /\ s_reply = NoReply
    /\ s_answer = NoAnswer

\* the calls of update_or_create_comment that may overlap
Callers == 1..MaxCallers

ConcurrentIdle ==
    /\ k_comments = <<>>
    /\ k_body = [p \in Callers |-> <<>>]
    /\ k_phase = [p \in Callers |-> "idle"]
    /\ k_existing_id = [p \in Callers |-> NoneVal]

ExtraIdle == CommentIdle /\ ServerIdle /\ ConcurrentIdle

\* the nodes outside the retry loop
OnceNodes ==
    {"extractor", "discovery", "repo_scanner", "aggregator", "post_comment"}

GraphIdle ==
    /\ node = "idle"
    /\ max_retries = 1 /\ pr_url = "" /\ dry_run = FALSE
    /\ enable_diagrams = FALSE
    /\ pr_metadata = NoneVal /\ file_changes = <<>>
    /\ documentation_files = <<>> /\ documentation_status = NoneVal
    /\ findings = <<>> /\ agent_outputs = <<>> /\ agents_needed = <<>>
    /\ validation_passed = FALSE /\ validation_feedback = NoneVal
    /\ retry_count = 0 /\ markdown_report = NoneVal /\ comment_url = NoneVal
    /\ errors = <<>>
    /\ auditor_calls = 0 /\ pass_trace = <<>>
    /\ last = [step |-> "START", failed |-> FALSE]
    /\ only_rejections = TRUE /\ produced = 0 /\ text_merged = {}
    /\ keys_merged = {}
    /\ executed = [n \in OnceNodes |-> 0]

(***************************************************************************)
(* Titles and descriptions are sequences of words (the text split at       *)
(* blanks).  Strings are opaque here, so what the code computes from the   *)
(* characters of a word is tabulated per word of the vocabulary:           *)
(* its lowercase form with punctuation removed, its alphabetical rank and  *)
(* the synonyms of _CONCEPT_SYNONYMS that occur in it as substrings.       *)
(* No synonym holds a blank, so a synonym occurs in the joined text        *)
(* exactly when it occurs in one of its words.                             *)
(***************************************************************************)
Vocabulary ==
    {"Add", "config", "section", "Document", "configuration", "options",
     "Retry", "retry", "logic", "router", "API"}

\* str.lower() and re.sub(r'[^\w\s]', '', ...) on one word
LowerWord(w) ==
    CASE w = "Add" -> "add"
      [] w = "Document" -> "document"
      [] w = "Retry" -> "retry"
      [] w = "API" -> "api"
      [] OTHER -> w

\* position of a lowercase word in sorted() order
WordRank(w) ==
    CASE w = "add" -> 1
      [] w = "api" -> 2
      [] w = "config" -> 3
      [] w = "configuration" -> 4
      [] w = "document" -> 5
      [] w = "logic" -> 6
      [] w = "options" -> 7
      [] w = "retry" -> 8
      [] w = "router" -> 9
      [] w = "section" -> 10
      [] OTHER -> 11

_STOPWORDS ==
    {"the", "a", "an", "is", "are", "for", "to", "in", "of", "and", "or",
     "with", "this", "that", "new", "add", "update", "missing", "outdated",
     "needed", "needs", "document", "documentation", "section"}

Canonicals == {"contract", "diagram", "config", "feature", "api", "readme"}

\* the canonical concepts one of whose synonyms is a substring of the
\* lowercase word: "configuration" holds "config", "router" holds "route"
ConceptsInWord(w) ==
    CASE w = "config" -> {"config"}
      [] w = "configuration" -> {"config"}
      [] w = "router" -> {"api"}
      [] w = "api" -> {"api"}
      [] OTHER -> {}

\* _extract_concepts that finds no concept: every key falls back to the
\* normalised title
_extract_concepts_none(text) == {}

\* _extract_concepts(text), text given as its words
_extract_concepts(text) ==
    UNION {ConceptsInWord(LowerWord(text[i])) : i \in 1..Len(text)}

\* insertion of a word into a sorted sequence of words
RECURSIVE InsertSorted(_, _)
InsertSorted(w, s) ==
    IF s = <<>> THEN <<w>>
    ELSE IF WordRank(w) <= WordRank(Head(s)) THEN <<w>> \o s
    ELSE <<Head(s)>> \o InsertSorted(w, Tail(s))

RECURSIVE SortWords(_)
SortWords(s) == IF s = <<>> THEN <<>> ELSE InsertSorted(Head(s), SortWords(Tail(s)))

\* _normalize_title(title): lowercase, stopwords dropped, words sorted
_normalize_title(title) ==
    SortWords(SelectSeq([i \in 1..Len(title) |-> LowerWord(title[i])],
                        LAMBDA w : w \notin _STOPWORDS))

\* _generate_dedup_key(finding): f"{finding_type}|{file_path}|{concepts_str}".
\* The string is modelled by its parts: the sorted concepts joined by "|"
\* are the concept set, the normalised title its word sequence; a title
\* without concepts never normalises to a concept name, so the two
\* alternatives of concepts_str stay apart.
_generate_dedup_key(finding) ==
    LET concepts == _extract_concepts(finding.title \o finding.description)
    IN  <<finding.finding_type,
          IF finding.file_path = NoneVal THEN "" ELSE finding.file_path,
          concepts,
          IF concepts # {} THEN <<>> ELSE _normalize_title(finding.title)>>

\* the keys of the findings of a list
KeysOf(recs) == {_generate_dedup_key(recs[i]) : i \in 1..Len(recs)}

\* the lookup in findings_by_key comparing the finding type only
KeyIndexByType(acc, key) ==
    IF \E i \in 1..Len(acc) : acc[i].finding_type = key[1]
    THEN CHOOSE i \in 1..Len(acc) : acc[i].finding_type = key[1]
    ELSE 0

\* "key not in findings_by_key" that is always true
KeyIndexAbsent(acc, key) == 0

\* index of the entry of findings_by_key stored under key, 0 when absent
KeyIndex(acc, key) ==
    IF \E i \in 1..Len(acc) : _generate_dedup_key(acc[i]) = key
    THEN CHOOSE i \in 1..Len(acc) : _generate_dedup_key(acc[i]) = key
    ELSE 0

(***************************************************************************)
(* merge_findings (models/state.py): the reducer of the findings channel.  *)
(* findings_by_key is a Python dict: it keeps the insertion order of its   *)
(* keys and an assignment to a key that is present keeps the key's place.  *)
(* It is modelled as the sequence of its values.                           *)
(***************************************************************************)
\* MergeStep that lets a more severe finding replace the stored one
\* without carrying the stored recommended_update over
MergeStepNoCarry(acc, finding) ==
    LET key == _generate_dedup_key(finding)
        idx == KeyIndex(acc, key)
    IN  IF idx = 0 THEN Append(acc, finding)
        ELSE LET existing == acc[idx]
                 existing_sev == SeverityRank(existing.severity)
                 new_sev == SeverityRank(finding.severity)
             IN  IF new_sev < existing_sev
                 THEN [acc EXCEPT ![idx] = finding]
                 ELSE IF existing.recommended_update = NoneVal
                         /\ Truthy(finding.recommended_update)
                 THEN [acc EXCEPT ![idx] =
                         [existing EXCEPT !.recommended_update =
                                             finding.recommended_update]]
                 ELSE acc

\* MergeStep on a dict that forgets the place of a key when its value is
\* replaced: the more severe finding goes to the end
MergeStepMoveToEnd(acc, finding) ==
    LET key == _generate_dedup_key(finding)
        idx == KeyIndex(acc, key)
    IN  IF idx = 0 THEN Append(acc, finding)
        ELSE LET existing == acc[idx]
                 existing_sev == SeverityRank(existing.severity)
                 new_sev == SeverityRank(finding.severity)
             IN  IF new_sev < existing_sev
                 THEN Append(SubSeq(acc, 1, idx - 1)
                                \o SubSeq(acc, idx + 1, Len(acc)),
                             IF Truthy(existing.recommended_update)
                                /\ ~Truthy(finding.recommended_update)
                             THEN [finding EXCEPT !.recommended_update =
                                                     existing.recommended_update]
                             ELSE finding)
                 ELSE IF existing.recommended_update = NoneVal
                         /\ Truthy(finding.recommended_update)
                 THEN [acc EXCEPT ![idx] =
                         [existing EXCEPT !.recommended_update =
                                             finding.recommended_update]]
                 ELSE acc

\* MergeStep with the severity comparison turned round
MergeStepInverted(acc, finding) ==
    LET key == _generate_dedup_key(finding)
        idx == KeyIndex(acc, key)
    IN  IF idx = 0 THEN Append(acc, finding)
        ELSE LET existing == acc[idx]
                 existing_sev == SeverityRank(existing.severity)
                 new_sev == SeverityRank(finding.severity)
             IN  IF new_sev > existing_sev
                 THEN [acc EXCEPT ![idx] =
                         IF Truthy(existing.recommended_update)
                            /\ ~Truthy(finding.recommended_update)
                         THEN [finding EXCEPT !.recommended_update =
                                                 existing.recommended_update]
                         ELSE finding]
                 ELSE IF existing.recommended_update = NoneVal
                         /\ Truthy(finding.recommended_update)
                 THEN [acc EXCEPT ![idx] =
                         [existing EXCEPT !.recommended_update =
                                             finding.recommended_update]]
                 ELSE acc

\* one iteration of the loop "for finding in left + right"
MergeStep(acc, finding) ==
    LET key == _generate_dedup_key(finding)
        idx == KeyIndex(acc, key)
    IN  IF idx = 0 THEN Append(acc, finding)
        ELSE LET existing == acc[idx]
                 existing_sev == SeverityRank(existing.severity)
                 new_sev == SeverityRank(finding.severity)
             IN  IF new_sev < existing_sev
                 THEN [acc EXCEPT ![idx] =
                         IF Truthy(existing.recommended_update)
                            /\ ~Truthy(finding.recommended_update)
                         THEN [finding EXCEPT !.recommended_update =
                                                 existing.recommended_update]
                         ELSE finding]
                 ELSE IF existing.recommended_update = NoneVal
                         /\ Truthy(finding.recommended_update)
                 THEN [acc EXCEPT ![idx] =
                         [existing EXCEPT !.recommended_update =
                                             finding.recommended_update]]
                 ELSE acc

RECURSIVE MergeFold(_, _)
MergeFold(acc, rest) ==
    IF rest = <<>> THEN acc ELSE MergeFold(MergeStep(acc, Head(rest)), Tail(rest))

\* a findings channel without its reducer: the update replaces the value
merge_findings_overwrite(left, right) == MergeFold(<<>>, right)

\* merge_findings(left, right)
merge_findings(left, right) == MergeFold(<<>>, left \o right)

\* merge_lists(left, right)
\* merge_lists that loses the update
merge_lists_drop(left, right) == left

\* merge_lists that puts the update in front of the existing value
merge_lists_prepend(left, right) == right \o left

merge_lists(left, right) == left \o right

(***************************************************************************)
(* Routers (graph/routing.py).  A router reads the state; the operators    *)
(* take the channels the router reads.                                     *)
(***************************************************************************)
\* "name" in agents_needed
InList(name, list) == \E i \in 1..Len(list) : list[i] = name

\* route_after_discovery without the test of the error list
route_after_discovery_always_scan(errs) == "repo_scanner"

route_after_discovery(errs) ==
    IF errs # <<>> THEN "auditor" ELSE "repo_scanner"

\* should_retry_analysis that never goes back to the auditor
should_retry_analysis_never(passed, count, ceiling) == "aggregator"

\* should_retry_analysis without the retry ceiling
should_retry_analysis_no_ceiling(passed, count, ceiling) ==
    IF passed THEN "aggregator" ELSE "auditor"

\* should_retry_analysis that gives up one analysis early
should_retry_analysis_early(passed, count, ceiling) ==
    IF passed THEN "aggregator"
    ELSE IF count + 1 >= ceiling THEN "aggregator"
    ELSE "auditor"

should_retry_analysis(passed, count, ceiling) ==
    IF passed THEN "aggregator"
    ELSE IF count >= ceiling THEN "aggregator"
    ELSE "auditor"

\* route_agents with correction tested before technical_writer
route_agents_correction_first(needed, diagrams) ==
    IF InList("correction", needed) THEN "correction_agent"
    ELSE IF InList("technical_writer", needed) THEN "technical_writer_agent"
    ELSE IF diagrams /\ InList("visual_architect", needed)
    THEN "visual_architect_agent"
    ELSE "critic"

\* route_agents reading agents_needed as it was before the update of the
\* step that just finished was merged
route_agents_stale(needed, diagrams) ==
    IF InList("technical_writer", agents_needed)
    THEN "technical_writer_agent"
    ELSE IF diagrams /\ InList("visual_architect", agents_needed)
    THEN "visual_architect_agent"
    ELSE IF InList("correction", agents_needed) THEN "correction_agent"
    ELSE "critic"

route_agents(needed, diagrams) ==
    IF InList("technical_writer", needed) THEN "technical_writer_agent"
    ELSE IF diagrams /\ InList("visual_architect", needed)
    THEN "visual_architect_agent"
    ELSE IF InList("correction", needed) THEN "correction_agent"
    ELSE "critic"

\* route_after_technical_writer that goes straight to validation
route_after_technical_writer_skip(needed, diagrams) == "critic"

route_after_technical_writer(needed, diagrams) ==
    IF diagrams /\ InList("visual_architect", needed)
    THEN "visual_architect_agent"
    ELSE IF InList("correction", needed) THEN "correction_agent"
    ELSE "critic"

\* route_after_visual_architect that goes back to the technical writer
route_after_visual_architect_back(needed) ==
    IF InList("technical_writer", needed) THEN "technical_writer_agent"
    ELSE IF InList("correction", needed) THEN "correction_agent"
    ELSE "critic"

route_after_visual_architect(needed) ==
    IF InList("correction", needed) THEN "correction_agent" ELSE "critic"

\* analyze_changes without the increment of retry_count
next_retry_count_stuck(count) == count

\* "retry_count": retry_count + 1 in the update analyze_changes returns
next_retry_count(count) == count + 1

(***************************************************************************)
(* _determine_agents_needed (nodes/auditor.py).  The code reads            *)
(* llm_suggested only through "in", so the suggestion is given as the set  *)
(* of its names.                                                           *)
(***************************************************************************)
\* _determine_agents_needed that does not look at enable_diagrams
_determine_agents_needed_any_diagram(llm_suggested, diagrams, docs_missing) ==
    IF docs_missing
    THEN <<"technical_writer", "visual_architect">>
    ELSE (IF "correction" \in llm_suggested THEN <<"correction">> ELSE <<>>)
         \o (IF "technical_writer" \in llm_suggested
             THEN <<"technical_writer">> ELSE <<>>)
         \o (IF "visual_architect" \in llm_suggested
             THEN <<"visual_architect">> ELSE <<>>)

_determine_agents_needed(llm_suggested, diagrams, docs_missing) ==
    IF docs_missing
    THEN <<"technical_writer">>
         \o (IF diagrams THEN <<"visual_architect">> ELSE <<>>)
    ELSE (IF "correction" \in llm_suggested THEN <<"correction">> ELSE <<>>)
         \o (IF "technical_writer" \in llm_suggested
             THEN <<"technical_writer">> ELSE <<>>)
         \o (IF diagrams /\ "visual_architect" \in llm_suggested
             THEN <<"visual_architect">> ELSE <<>>)

(***************************************************************************)
(* MergeSpec: merge_findings on bounded inputs                             *)
(***************************************************************************)
TitleAddConfig == <<"Add", "config", "section">>
TitleDocConfig == <<"Document", "configuration", "options">>
TitleRetry == <<"Retry", "logic">>

\* the recommended_update of a shape: None, the empty string or a text
ReplacementKinds == {"none", "empty", "text"}

\* the text of the n-th finding; texts written by different LLM calls differ
TextOf(n) ==
    CASE n = 1 -> "text1"
      [] n = 2 -> "text2"
      [] n = 3 -> "text3"
      [] OTHER -> "text4"

\* what a finding can look like, its id and its text left open
FindingShapes ==
    [finding_type : {"missing_doc"},
     severity : Severities,
     title : {TitleAddConfig, TitleDocConfig, TitleRetry},
     description : {<<"options">>},
     file_path : {"README.md"},
     kind : ReplacementKinds]

\* AnalysisFindingRecord(id=str(uuid.uuid4()), ...): every record gets an
\* id of its own
WithId(shape, n) ==
    [id |-> n,
     finding_type |-> shape.finding_type,
     severity |-> shape.severity,
     title |-> shape.title,
     description |-> shape.description,
     file_path |-> shape.file_path,
     recommended_update |->
         CASE shape.kind = "none" -> NoneVal
           [] shape.kind = "empty" -> ""
           [] OTHER -> TextOf(n)]

ShapeLists(n) == [1..n -> FindingShapes]

MInit ==
    /\ \E nl \in 0..MaxMergeLen, nr \in 0..MaxMergeLen :
          /\ nl + nr <= MaxMergeLen
          /\ \E l \in ShapeLists(nl), r \in ShapeLists(nr) :
                /\ m_left = [i \in 1..nl |-> WithId(l[i], i)]
                /\ m_right = [i \in 1..nr |-> WithId(r[i], nl + i)]
    /\ m_out = <<>>
    /\ m_swapped = <<>>
    /\ m_phase = "input"
    /\ GraphIdle
    /\ RouteIdle
    /\ ExtraIdle

ApplyMerge ==
    /\ m_phase = "input"
    /\ m_out' = merge_findings(m_left, m_right)
    /\ m_swapped' = merge_findings(m_right, m_left)
    /\ m_phase' = "merged"
    /\ UNCHANGED <<m_left, m_right, gvars, rvars, xvars>>

MNext == ApplyMerge

MergeSpec == MInit /\ [][MNext]_vars

(***************************************************************************)
(* Properties of merge_findings, checked under MergeSpec                   *)
(***************************************************************************)
\* the findings handed to the merge, in arrival order
MergeInputs == m_left \o m_right

\* the severity vocabulary, most severe first
SeverityOrder == <<"critical", "high", "medium", "low", "info">>

SevPos(sev) == CHOOSE i \in 1..Len(SeverityOrder) : SeverityOrder[i] = sev

SameKey(f, g) == _generate_dedup_key(f) = _generate_dedup_key(g)

\* the findings of list fs that have the key of f
KeyGroup(fs, f) == {i \in 1..Len(fs) : SameKey(fs[i], f)}

\* C6: for findings that share a dedup key, in either arrival order, the
\* finding kept for the key has the most severe of their severities; the
\* merge never yields a severity less severe than an input of that key.
C6_SeverityMonotone ==
    m_phase = "merged" =>
        LET ins == MergeInputs
            \* the (key, severity) pairs of the inputs and of the result
            inPairs == {<<_generate_dedup_key(ins[i]), ins[i].severity>> :
                           i \in 1..Len(ins)}
            outPairs == {<<_generate_dedup_key(m_out[k]), m_out[k].severity>> :
                            k \in 1..Len(m_out)}
        IN  \A p \in inPairs :
                \E q \in outPairs :
                    /\ q[1] = p[1]
                    /\ SevPos(q[2]) <= SevPos(p[2])
                    /\ \E r \in inPairs : r[1] = p[1] /\ r[2] = q[2]

\* two findings of one key, the later one the more severe, merged into one
C6_Witness ==
    /\ m_phase = "merged"
    /\ Len(m_left) = 1 /\ Len(m_right) = 1
    /\ SameKey(m_left[1], m_right[1])
    /\ SevPos(m_right[1].severity) < SevPos(m_left[1].severity)
    /\ Len(m_out) = 1
    /\ m_out[1].severity = m_right[1].severity

\* C7: when exactly one of two findings that share a dedup key carries a
\* replacement text, the finding kept for the key carries that text,
\* whichever of the two is more severe and whichever arrived first.
C7_TextPreserved ==
    m_phase = "merged" =>
        \A i, j \in 1..Len(MergeInputs) :
            ( /\ i # j
              /\ KeyGroup(MergeInputs, MergeInputs[i]) = {i, j}
              /\ Truthy(MergeInputs[i].recommended_update)
              /\ ~Truthy(MergeInputs[j].recommended_update) )
            => \E k \in 1..Len(m_out) :
                  /\ SameKey(m_out[k], MergeInputs[i])
                  /\ m_out[k].recommended_update =
                        MergeInputs[i].recommended_update

\* C14: for lists A and B and every dedup key, the finding kept for the
\* key has the same severity and the same replacement text in
\* merge_findings(A, B) and in merge_findings(B, A).
C14_OrderIndependent ==
    m_phase = "merged" =>
        \A k \in 1..Len(m_out) :
            \A j \in 1..Len(m_swapped) :
                SameKey(m_out[k], m_swapped[j])
                    => /\ m_out[k].severity = m_swapped[j].severity
                       /\ m_out[k].recommended_update
                             = m_swapped[j].recommended_update

\* C15: merge_findings(A, B) and merge_findings(B, A) hold the same set of
\* dedup keys, the keys of the findings of A and B together.
C15_SameKeys ==
    m_phase = "merged" =>
        LET kept == KeysOf(m_out)
        IN  /\ kept = KeysOf(m_swapped)
            /\ kept = KeysOf(MergeInputs)

\* two findings of different keys: both orders keep both keys, in
\* different places
C15_Witness ==
    /\ m_phase = "merged"
    /\ Len(m_left) = 1 /\ Len(m_right) = 1
    /\ ~SameKey(m_left[1], m_right[1])
    /\ Len(m_out) = 2
    /\ m_out # m_swapped
    /\ KeysOf(m_out) = KeysOf(m_swapped)

(***************************************************************************)
(* Spec: one run of the graph built by build_main_graph                    *)
(* (graph/main_graph.py).  node is the node the driver invokes next;       *)
(* "END" after post_comment, "FAULT" when a node raised and ainvoke        *)
(* propagated the exception to its caller.                                 *)
(***************************************************************************)
\* the analysis node is not invoked more often than this in the model
CallCap == MaxRetriesBound + 3

ValidUrl == "https://github.com/owner/repo/pull/1"

PRMeta == "pr_metadata"

SubTaskNodes ==
    {"technical_writer_agent", "visual_architect_agent", "correction_agent"}

\* the finding types the analysis answers carry in a run
AuditorTypes == {"missing_doc"}

\* the findings the LLM answers carry in a run: a high one without a
\* replacement text (None or "") or a medium one with a text
GraphShapes(types) ==
    {shape \in [finding_type : types,
                severity : {"high", "medium"},
                title : {TitleAddConfig},
                description : {<<"options">>},
                file_path : {"README.md"},
                kind : ReplacementKinds] :
        shape.severity = "medium" <=> shape.kind = "text"}

\* the findings lists an LLM answer can carry
Answers(types, lo) ==
    UNION {[1..n -> GraphShapes(types)] : n \in lo..(MaxRunFindings - produced)}

\* the records a node makes of an answer; uuid4 gives each a fresh id
Records(answer) ==
    [i \in 1..Len(answer) |-> WithId(answer[i], produced + i)]

\* the keys of the findings of a list that carry a replacement text
TextKeys(recs) ==
    {_generate_dedup_key(recs[i]) :
        i \in {j \in 1..Len(recs) : Truthy(recs[j].recommended_update)}}

Init ==
    /\ node = "extractor"
    /\ max_retries \in 1..MaxRetriesBound
    /\ pr_url \in {ValidUrl, "not a pull request"}
    /\ dry_run \in BOOLEAN
    /\ enable_diagrams \in BOOLEAN
    \* create_initial_state
    /\ pr_metadata = NoneVal
    /\ file_changes = <<>>
    /\ documentation_files = <<>>
    /\ documentation_status = NoneVal
    /\ findings = <<>>
    /\ agent_outputs = <<>>
    /\ agents_needed = <<>>
    /\ validation_passed = FALSE
    /\ validation_feedback = NoneVal
    /\ retry_count = 0
    /\ markdown_report = NoneVal
    /\ comment_url = NoneVal
    /\ errors = <<>>
    /\ auditor_calls = 0
    /\ pass_trace = <<>>
    /\ last = [step |-> "START", failed |-> FALSE]
    /\ only_rejections = TRUE
    /\ produced = 0
    /\ text_merged = {}
    /\ keys_merged = {}
    /\ executed = [n \in OnceNodes |-> 0]
    /\ MergeIdle
    /\ RouteIdle
    /\ ExtraIdle

\* extract_pr_diff, then the edge extractor -> discovery
Extractor ==
    /\ node = "extractor"
    /\ \/ /\ pr_url = ValidUrl
          /\ pr_metadata' = PRMeta
          /\ file_changes' = merge_lists(file_changes, <<"src/app.py">>)
          /\ last' = [step |-> "extractor", failed |-> FALSE]
          /\ UNCHANGED errors
       \/ /\ \E e \in {"Failed to extract PR data",
                       "Unexpected error extracting PR data"} :
                /\ pr_url # ValidUrl => e = "Failed to extract PR data"
                /\ errors' = merge_lists(errors, <<e>>)
          /\ last' = [step |-> "extractor", failed |-> TRUE]
          /\ UNCHANGED <<pr_metadata, file_changes>>
    /\ node' = "discovery"
    /\ executed' = [executed EXCEPT ![node] = @ + 1]
    /\ UNCHANGED <<mvars, rvars, xvars, inputs, documentation_files, documentation_status, findings,
                   agent_outputs, agents_needed, validation_passed,
                   validation_feedback, retry_count, markdown_report,
                   comment_url, auditor_calls, pass_trace, only_rejections,
                   produced, text_merged, keys_merged>>

\* discover_documentation returns {}, then route_after_discovery
Discovery ==
    /\ node = "discovery"
    /\ node' = route_after_discovery(errors)
    /\ last' = [step |-> "discovery", failed |-> FALSE]
    /\ executed' = [executed EXCEPT ![node] = @ + 1]
    /\ UNCHANGED <<mvars, rvars, xvars, inputs, channels, auditor_calls, pass_trace,
                   only_rejections, produced, text_merged, keys_merged>>

\* the message of the branch of scan_repository for a state without
\* pr_metadata
NoMetadataForScan == "No PR metadata available for repo scan"

\* scan_repository, then the edge repo_scanner -> auditor; the status
\* "minimal" is left out, the nodes read only status = "missing"
RepoScanner ==
    /\ node = "repo_scanner"
    /\ \/ /\ pr_metadata = NoneVal
          /\ errors' = merge_lists(errors, <<NoMetadataForScan>>)
          /\ last' = [step |-> "repo_scanner", failed |-> FALSE]
          /\ UNCHANGED <<documentation_files, documentation_status>>
       \/ /\ pr_metadata # NoneVal
          /\ \E status \in {"missing", "present"} :
                /\ documentation_status' = status
                /\ documentation_files' = merge_lists(documentation_files,
                       IF status = "missing" THEN <<>> ELSE <<"README.md">>)
          /\ last' = [step |-> "repo_scanner", failed |-> FALSE]
          /\ UNCHANGED errors
       \/ /\ pr_metadata # NoneVal
          /\ \E e \in {"Failed to scan repository",
                       "Unexpected error scanning repository"} :
                errors' = merge_lists(errors, <<e>>)
          /\ last' = [step |-> "repo_scanner", failed |-> TRUE]
          /\ UNCHANGED <<documentation_files, documentation_status>>
    /\ node' = "auditor"
    /\ executed' = [executed EXCEPT ![node] = @ + 1]
    /\ UNCHANGED <<mvars, rvars, xvars, inputs, pr_metadata, file_changes, findings, agent_outputs,
                   agents_needed, validation_passed, validation_feedback,
                   retry_count, markdown_report, comment_url, auditor_calls,
                   pass_trace, only_rejections, produced, text_merged, keys_merged>>

\* analyze_changes, then route_agents
Auditor ==
    /\ node = "auditor"
    /\ auditor_calls < CallCap
    /\ auditor_calls' = auditor_calls + 1
    /\ pass_trace' = <<>>
    /\ \/ /\ pr_metadata = NoneVal
          /\ errors' = merge_lists(errors,
                           <<"No PR metadata available for analysis">>)
          /\ node' = route_agents(agents_needed, enable_diagrams)
          /\ last' = [step |-> "auditor", failed |-> FALSE]
          /\ UNCHANGED <<findings, agents_needed, retry_count, produced,
                         text_merged, keys_merged>>
       \/ /\ pr_metadata # NoneVal
          /\ \E answer \in Answers(AuditorTypes, 0),
                llm_suggested \in SUBSET AgentNames :
                LET recs == Records(answer)
                    docs_missing == documentation_status = NoneVal
                                    \/ documentation_status = "missing"
                IN  /\ findings' = merge_findings(findings, recs)
                    /\ agents_needed' = _determine_agents_needed(
                           llm_suggested, enable_diagrams, docs_missing)
                    /\ retry_count' = next_retry_count(retry_count)
                    /\ produced' = produced + Len(recs)
                    /\ text_merged' = text_merged \cup TextKeys(recs)
                    /\ keys_merged' = keys_merged \cup KeysOf(recs)
                    /\ node' = route_agents(agents_needed', enable_diagrams)
          /\ last' = [step |-> "auditor", failed |-> FALSE]
          /\ UNCHANGED errors
       \/ \* the LLM call failed: "raise LLMError(...) from e"
          /\ pr_metadata # NoneVal
          /\ node' = "FAULT"
          /\ last' = [step |-> "auditor", failed |-> TRUE]
          /\ UNCHANGED <<findings, agents_needed, retry_count, errors,
                         produced, text_merged, keys_merged>>
    /\ UNCHANGED <<executed, mvars, rvars, xvars, inputs, pr_metadata, file_changes, documentation_files,
                   documentation_status, agent_outputs, validation_passed,
                   validation_feedback, markdown_report, comment_url,
                   only_rejections>>

\* an agent node that catches the failure of its LLM call and reports it
\* in errors
SubTaskReportsFailure(step, name, types, lo, output_type, next) ==
    /\ node = step
    /\ pass_trace' = Append(pass_trace, step)
    /\ \/ \E answer \in Answers(types, lo) :
             LET recs == Records(answer)
             IN  /\ findings' = merge_findings(findings, recs)
                 /\ agent_outputs' = merge_lists(agent_outputs,
                        <<[agent_name |-> name, finding_type |-> output_type]>>)
                 /\ produced' = produced + Len(recs)
                 /\ text_merged' = text_merged \cup TextKeys(recs)
                 /\ keys_merged' = keys_merged \cup KeysOf(recs)
                 /\ node' = next
                 /\ last' = [step |-> step, failed |-> FALSE]
                 /\ UNCHANGED errors
       \/ /\ node' = next
          /\ errors' = merge_lists(errors, <<"Agent failed">>)
          /\ last' = [step |-> step, failed |-> TRUE]
          /\ UNCHANGED <<findings, agent_outputs, produced, text_merged, keys_merged>>
    /\ UNCHANGED <<executed, mvars, rvars, xvars, inputs, pr_metadata, file_changes, documentation_files,
                   documentation_status, agents_needed, validation_passed,
                   validation_feedback, retry_count, markdown_report,
                   comment_url, auditor_calls, only_rejections>>

\* what the three agent nodes share: BaseDocAgent._invoke either answers
\* or raises LLMError, which process() and the node function let through
SubTask(step, name, types, lo, output_type, next) ==
    /\ node = step
    /\ pass_trace' = Append(pass_trace, step)
    /\ \/ \E answer \in Answers(types, lo) :
             LET recs == Records(answer)
             IN  /\ findings' = merge_findings(findings, recs)
                 /\ agent_outputs' = merge_lists(agent_outputs,
                        <<[agent_name |-> name, finding_type |-> output_type]>>)
                 /\ produced' = produced + Len(recs)
                 /\ text_merged' = text_merged \cup TextKeys(recs)
                 /\ keys_merged' = keys_merged \cup KeysOf(recs)
                 /\ node' = next
                 /\ last' = [step |-> step, failed |-> FALSE]
       \/ /\ node' = "FAULT"
          /\ last' = [step |-> step, failed |-> TRUE]
          /\ UNCHANGED <<findings, agent_outputs, produced, text_merged, keys_merged>>
    /\ UNCHANGED <<executed, mvars, rvars, xvars, inputs, pr_metadata, file_changes, documentation_files,
                   documentation_status, agents_needed, validation_passed,
                   validation_feedback, retry_count, markdown_report,
                   comment_url, errors, auditor_calls, only_rejections>>

\* run_technical_writer, then route_after_technical_writer
TechnicalWriter ==
    SubTask("technical_writer_agent", "technical_writer", {"missing_doc"}, 0,
            "new_documentation",
            route_after_technical_writer(agents_needed, enable_diagrams))

\* run_visual_architect, then route_after_visual_architect
VisualArchitect ==
    SubTask("visual_architect_agent", "visual_architect", {"diagram_needed"},
            1, "diagram", route_after_visual_architect(agents_needed))

\* run_correction_agent, then the edge correction_agent -> critic
Correction ==
    SubTask("correction_agent", "correction", {"discrepancy"}, 0,
            "correction", "critic")

\* the retry ceiling test of validate_analysis, one analysis late
MaxRetriesExceededLate(count, ceiling) == count > ceiling

\* validate_analysis: "if retry_count >= max_retries"
MaxRetriesExceeded(count, ceiling) == count >= ceiling

\* validate_analysis, then should_retry_analysis
Critic ==
    /\ node = "critic"
    /\ \/ /\ findings = <<>>
          /\ validation_passed' = TRUE
          /\ validation_feedback' = "No findings generated"
          /\ last' = [step |-> "critic", failed |-> FALSE]
          /\ UNCHANGED only_rejections
       \/ /\ findings # <<>>
          /\ MaxRetriesExceeded(retry_count, max_retries)
          /\ validation_passed' = TRUE
          /\ validation_feedback' = "Max retries exceeded - accepting analysis"
          /\ last' = [step |-> "critic", failed |-> FALSE]
          /\ UNCHANGED only_rejections
       \/ /\ findings # <<>>
          /\ ~MaxRetriesExceeded(retry_count, max_retries)
          /\ \E verdict \in BOOLEAN :
                /\ validation_passed' = verdict
                /\ only_rejections' = (only_rejections /\ ~verdict)
          /\ validation_feedback' = "feedback"
          /\ last' = [step |-> "critic", failed |-> FALSE]
       \/ /\ findings # <<>>
          /\ ~MaxRetriesExceeded(retry_count, max_retries)
          /\ validation_passed' = TRUE
          /\ validation_feedback' = "Validation error (accepting)"
          /\ only_rejections' = FALSE
          /\ last' = [step |-> "critic", failed |-> TRUE]
    /\ node' = should_retry_analysis(validation_passed', retry_count,
                                     max_retries)
    /\ UNCHANGED <<executed, mvars, rvars, xvars, inputs, pr_metadata, file_changes, documentation_files,
                   documentation_status, findings, agent_outputs,
                   agents_needed, retry_count, markdown_report, comment_url,
                   errors, auditor_calls, pass_trace, produced, text_merged, keys_merged>>

\* generate_markdown, then the edge aggregator -> post_comment
Aggregator ==
    /\ node = "aggregator"
    /\ markdown_report' = "report"
    /\ node' = "post_comment"
    /\ last' = [step |-> "aggregator", failed |-> FALSE]
    /\ executed' = [executed EXCEPT ![node] = @ + 1]
    /\ UNCHANGED <<mvars, rvars, xvars, inputs, pr_metadata, file_changes, documentation_files,
                   documentation_status, findings, agent_outputs,
                   agents_needed, validation_passed, validation_feedback,
                   retry_count, comment_url, errors, auditor_calls,
                   pass_trace, only_rejections, produced, text_merged, keys_merged>>

\* post_github_comment, then the edge post_comment -> END; with dry_run
\* nothing is posted and comment_url is None or the text cli.py tests for
PostComment ==
    /\ node = "post_comment"
    /\ comment_url' \in (IF dry_run THEN {NoneVal, "[dry-run]"}
                                     ELSE {"comment url"})
    /\ node' = "END"
    /\ last' = [step |-> "post_comment", failed |-> FALSE]
    /\ executed' = [executed EXCEPT ![node] = @ + 1]
    /\ UNCHANGED <<mvars, rvars, xvars, inputs, pr_metadata, file_changes, documentation_files,
                   documentation_status, findings, agent_outputs,
                   agents_needed, validation_passed, validation_feedback,
                   retry_count, markdown_report, errors, auditor_calls,
                   pass_trace, only_rejections, produced, text_merged, keys_merged>>

Next ==
    \/ Extractor
    \/ Discovery
    \/ RepoScanner
    \/ Auditor
    \/ TechnicalWriter
    \/ VisualArchitect
    \/ Correction
    \/ Critic
    \/ Aggregator
    \/ PostComment

Spec == Init /\ [][Next]_vars

(***************************************************************************)
(* Properties of a run, checked under Spec                                 *)
(***************************************************************************)
\* the node that runs the sub-task of a name of agents_needed
AgentStep(name) ==
    CASE name = "technical_writer" -> "technical_writer_agent"
      [] name = "visual_architect" -> "visual_architect_agent"
      [] OTHER -> "correction_agent"

\* the sub-task nodes agents_needed asks for
NeededSteps == {AgentStep(agents_needed[i]) : i \in 1..Len(agents_needed)}

\* place of a sub-task node in the order technical_writer,
\* visual_architect, correction
Priority(step) ==
    CASE step = "technical_writer_agent" -> 1
      [] step = "visual_architect_agent" -> 2
      [] OTHER -> 3

MaxRetriesFeedback == "Max retries exceeded - accepting analysis"

\* C1: whatever the verdicts of the validator, a run invokes the analysis
\* step (auditor) at most max_retries + 1 times, so also before
\* should_retry_analysis routes to the aggregator.
C1_RetryTermination == auditor_calls <= max_retries + 1

\* a run that used its retries: the validation step stopped asking after
\* the second analysis and the router sent the run to the aggregator
C1_Witness ==
    /\ node = "aggregator"
    /\ max_retries = 2
    /\ auditor_calls = 2
    /\ validation_feedback = MaxRetriesFeedback

\* C2: a run whose error list is non-empty is never halted early; it goes
\* on to the aggregator and post_comment.  Here: no node has raised in a
\* state whose error list is non-empty.
C2_ErrorsNeverHalt == errors # <<>> => node # "FAULT"

\* C3: a failure of the external call of a step is caught in the step and
\* becomes an update that only appends to errors; no step raises to the
\* driver.  Here: after a step whose call failed the driver is still
\* running and the error list is not empty.
C3_NoStepRaises == last.failed => (node # "FAULT" /\ errors # <<>>)

C5_ChainLength ==
    /\ \A i \in 1..Len(pass_trace) : pass_trace[i] \in NeededSteps
    /\ \A i, j \in 1..Len(pass_trace) :
          i # j => pass_trace[i] # pass_trace[j]
    /\ node = "critic" => Len(pass_trace) = Cardinality(NeededSteps)

\* a pass of a retry in which all three sub-tasks ran
C5_Witness ==
    /\ node = "critic"
    /\ auditor_calls = 2
    /\ Len(pass_trace) = 3
    /\ Len(agents_needed) = 3

\* C8: once a finding with a non-empty replacement text has been merged
\* into the findings channel under a key, the finding stored for that key
\* carries a non-empty replacement text in every later state of the run.
C8_TextNeverDropped ==
    \A key \in text_merged :
        \E k \in 1..Len(findings) :
            /\ _generate_dedup_key(findings[k]) = key
            /\ Truthy(findings[k].recommended_update)

\* C9 as stated: with max_retries = 2 and a validator that rejects every
\* time it is asked, the auditor is invoked exactly 3 times and the
\* aggregator is reached with validation_passed still false.
C9_ThreeCallsStillFalse ==
    (node = "aggregator" /\ max_retries = 2 /\ only_rejections)
        => (auditor_calls = 3 /\ validation_passed = FALSE)

\* C9, amended: with max_retries = 2 and a validator that rejects every
\* time it is asked, the auditor is invoked at most 2 times, exactly 2
\* times once the validator has been asked, and the aggregator is reached
\* with validation_passed true: validate_analysis sets it when
\* retry_count >= max_retries, without asking the validator.
C9_TwoCallsThenAccepted ==
    (node = "aggregator" /\ max_retries = 2 /\ only_rejections)
        => /\ auditor_calls <= 2
           /\ validation_passed = TRUE
           /\ findings # <<>> => (/\ auditor_calls = 2
                                  /\ validation_feedback = MaxRetriesFeedback)

\* the validator was asked once, rejected, and the second validation
\* accepted without asking
C9_Witness ==
    /\ node = "aggregator"
    /\ max_retries = 2
    /\ only_rejections
    /\ findings # <<>>
    /\ auditor_calls = 2
    /\ retry_count = 2
    /\ validation_passed = TRUE

\* the sub-task nodes that agents_needed and enable_diagrams let run
RunnableSteps ==
    {step \in NeededSteps :
        step = "visual_architect_agent" => enable_diagrams}

\* the node that follows in the chain after the sub-tasks of priority up
\* to p: the runnable sub-task of the lowest priority above p, or critic
NextInChain(p) ==
    LET later == {step \in RunnableSteps : Priority(step) > p}
    IN  IF later = {} THEN "critic"
        ELSE CHOOSE step \in later :
                 \A other \in later : Priority(step) <= Priority(other)

C13_OneFindingPerKey ==
    \A i, j \in 1..Len(findings) :
        i # j => _generate_dedup_key(findings[i])
                    # _generate_dedup_key(findings[j])

\* the analysis of a retry found the key of the first pass again and the
\* channel still holds one finding
C13_Witness ==
    /\ auditor_calls = 2
    /\ last = [step |-> "auditor", failed |-> FALSE]
    /\ produced = 2
    /\ Len(findings) = 1

\* C16: an empty update leaves every channel as it is:
\* merge_lists(x, []) = x for the append-list channels and
\* merge_findings(x, []) = x for the findings channel, for every value a
\* channel holds in a run; and a step that returns an empty update
\* (discover_documentation) changes no channel.
C16_EmptyUpdate ==
    /\ [](/\ merge_findings(findings, <<>>) = findings
          /\ merge_lists(errors, <<>>) = errors
          /\ merge_lists(agent_outputs, <<>>) = agent_outputs
          /\ merge_lists(file_changes, <<>>) = file_changes
          /\ merge_lists(documentation_files, <<>>) = documentation_files)
    /\ [][Discovery => UNCHANGED channels]_vars

\* the empty update of discover_documentation has been applied and the
\* reducer channels of findings, records and files hold something
C16_Witness ==
    /\ Len(findings) = 2
    /\ agent_outputs # <<>>
    /\ file_changes # <<>>
    /\ documentation_files # <<>>

C18_RetryCountsEntries == retry_count = auditor_calls

\* left is a prefix of right
IsPrefix(left, right) ==
    /\ Len(left) <= Len(right)
    /\ SubSeq(right, 1, Len(left)) = left

\* C19: the channels errors and agent_outputs are append-only over a run:
\* after every step the previous value of the channel is a prefix of the
\* new value; no step removes, reorders or overwrites an earlier entry.
C19_AppendOnly ==
    [][/\ IsPrefix(errors, errors')
       /\ IsPrefix(agent_outputs, agent_outputs')]_vars

\* a second analysis pass has appended records after those of the first
\* pass, and the error of the failed repository scan is still the first
\* element of errors
C19_Witness ==
    /\ auditor_calls = 2
    /\ Len(agent_outputs) >= 2
    /\ errors # <<>>

\* C20: validate_analysis returns validation_passed = TRUE without asking
\* the validator when findings is empty, and also when retry_count >=
\* max_retries; otherwise it returns the verdict and the feedback of the
\* validator, and TRUE when the call of the validator fails.  A rejection
\* can therefore only be the validator's, on findings, under the ceiling.
C20_ValidateAnalysis ==
    last.step = "critic" =>
        /\ findings = <<>>
              => /\ validation_passed
                 /\ validation_feedback = "No findings generated"
                 /\ ~last.failed
        /\ (findings # <<>> /\ retry_count >= max_retries)
              => /\ validation_passed
                 /\ validation_feedback = MaxRetriesFeedback
                 /\ ~last.failed
        /\ last.failed
              => /\ validation_passed
                 /\ validation_feedback = "Validation error (accepting)"
        /\ ~validation_passed
              => /\ findings # <<>>
                 /\ retry_count < max_retries
                 /\ validation_feedback = "feedback"

\* the validator was asked about the findings of the first analysis and
\* rejected them: the run goes back to the auditor
C20_Witness ==
    /\ last = [step |-> "critic", failed |-> FALSE]
    /\ findings # <<>>
    /\ retry_count = 1
    /\ ~validation_passed
    /\ validation_feedback = "feedback"
    /\ node = "auditor"

(***************************************************************************)
(* RouteSpec: the routers on constructed states.  The walk follows the     *)
(* edges of build_main_graph from a decision point; no node body runs, so  *)
(* the constructed state stays as it is.                                   *)
(***************************************************************************)
NeededLists == UNION {[1..n -> AgentNames] : n \in 0..MaxNeededLen}

RInit ==
    /\ r_needed \in NeededLists
    /\ r_diagrams \in BOOLEAN
    /\ r_errors \in {<<>>, <<"Failed to extract PR data">>}
    /\ r_passed \in BOOLEAN
    /\ r_retry \in 0..MaxRouteRetry
    /\ r_ceiling \in 1..MaxRetriesBound
    /\ r_node \in {"discovery", "auditor", "critic"}
    /\ r_from = "START"
    /\ r_trace = <<>>
    /\ GraphIdle
    /\ MergeIdle
    /\ ExtraIdle

RouteFrame ==
    UNCHANGED <<r_needed, r_diagrams, r_errors, r_passed, r_retry, r_ceiling,
                gvars, mvars, xvars>>

\* add_conditional_edges("discovery", route_after_discovery, ...)
RouteDiscovery ==
    /\ r_node = "discovery"
    /\ r_node' = route_after_discovery(r_errors)
    /\ r_from' = r_node
    /\ UNCHANGED r_trace
    /\ RouteFrame

\* add_edge("repo_scanner", "auditor")
RouteRepoScanner ==
    /\ r_node = "repo_scanner"
    /\ r_node' = "auditor"
    /\ r_from' = r_node
    /\ UNCHANGED r_trace
    /\ RouteFrame

\* add_conditional_edges("auditor", route_agents, ...)
RouteAuditor ==
    /\ r_node = "auditor"
    /\ r_node' = route_agents(r_needed, r_diagrams)
    /\ r_from' = r_node
    /\ r_trace' = <<>>
    /\ RouteFrame

\* add_conditional_edges("technical_writer_agent", ...)
RouteTechnicalWriter ==
    /\ r_node = "technical_writer_agent"
    /\ r_node' = route_after_technical_writer(r_needed, r_diagrams)
    /\ r_from' = r_node
    /\ r_trace' = Append(r_trace, r_node)
    /\ RouteFrame

\* add_conditional_edges("visual_architect_agent", ...)
RouteVisualArchitect ==
    /\ r_node = "visual_architect_agent"
    /\ r_node' = route_after_visual_architect(r_needed)
    /\ r_from' = r_node
    /\ r_trace' = Append(r_trace, r_node)
    /\ RouteFrame

\* add_edge("correction_agent", "critic")
RouteCorrection ==
    /\ r_node = "correction_agent"
    /\ r_node' = "critic"
    /\ r_from' = r_node
    /\ r_trace' = Append(r_trace, r_node)
    /\ RouteFrame

\* add_conditional_edges("critic", should_retry_analysis, ...)
RouteCritic ==
    /\ r_node = "critic"
    /\ r_node' = should_retry_analysis(r_passed, r_retry, r_ceiling)
    /\ r_from' = r_node
    /\ UNCHANGED r_trace
    /\ RouteFrame

RNext ==
    \/ RouteDiscovery
    \/ RouteRepoScanner
    \/ RouteAuditor
    \/ RouteTechnicalWriter
    \/ RouteVisualArchitect
    \/ RouteCorrection
    \/ RouteCritic

RouteSpec == RInit /\ [][RNext]_vars

(***************************************************************************)
(* Properties of the routers, checked under RouteSpec                      *)
(***************************************************************************)
\* C10: should_retry_analysis returns "aggregator" when validation_passed
\* is true, else "aggregator" when retry_count >= max_retries, else
\* "auditor"; it returns "auditor" exactly when validation_passed is false
\* and retry_count < max_retries.
C10_RetryRouter ==
    r_from = "critic" =>
        /\ r_node \in {"auditor", "aggregator"}
        /\ r_passed => r_node = "aggregator"
        /\ (~r_passed /\ r_retry >= r_ceiling) => r_node = "aggregator"
        /\ r_node = "auditor" <=> (~r_passed /\ r_retry < r_ceiling)

\* the router stopped a rejected analysis at the ceiling
C10_Witness ==
    /\ r_from = "critic"
    /\ ~r_passed
    /\ r_retry = r_ceiling
    /\ r_node = "aggregator"

\* the path map handed to add_conditional_edges for a node: the nodes its
\* router may name
Candidates(step) ==
    CASE step = "discovery" -> {"repo_scanner", "auditor"}
      [] step = "auditor" ->
            {"technical_writer_agent", "visual_architect_agent",
             "correction_agent", "critic"}
      [] step = "technical_writer_agent" ->
            {"visual_architect_agent", "correction_agent", "critic"}
      [] step = "visual_architect_agent" -> {"correction_agent", "critic"}
      [] step = "critic" -> {"auditor", "aggregator"}
      [] OTHER -> {}

\* the nodes that have a router
RoutedNodes ==
    {"discovery", "auditor", "technical_writer_agent",
     "visual_architect_agent", "critic"}

\* C12: each router (route_after_discovery, route_agents,
\* route_after_technical_writer, route_after_visual_architect,
\* should_retry_analysis) returns a node of the candidate set declared
\* for its decision point in the graph.
C12_RouterClosure ==
    r_from \in RoutedNodes => r_node \in Candidates(r_from)

\* the router after the diagram step named the correction step, on a
\* state that also asks for the technical writer
C12_Witness ==
    /\ r_from = "visual_architect_agent"
    /\ InList("technical_writer", r_needed)
    /\ r_node = "correction_agent"

\* C22: when the pull-request reference cannot be parsed or the fetch
\* fails, extract_pr_diff returns an update that only appends one message
\* to errors: pr_metadata and file_changes keep their values, nothing is
\* raised and the run continues with the discovery step.
C22_ExtractorFailure ==
    /\ []((last.step = "extractor" /\ pr_url # ValidUrl) => last.failed)
    /\ [][(Extractor /\ last'.failed)
            => /\ pr_metadata' = pr_metadata
               /\ file_changes' = file_changes
               /\ Len(errors') = Len(errors) + 1
               /\ IsPrefix(errors, errors')
               /\ node' = "discovery"]_vars

\* the reference was not a pull request: one message in errors, no
\* metadata, no file changes, the run stands at the discovery step
C22_Witness ==
    /\ last = [step |-> "extractor", failed |-> TRUE]
    /\ pr_url # ValidUrl
    /\ errors = <<"Failed to extract PR data">>
    /\ pr_metadata = NoneVal
    /\ file_changes = <<>>
    /\ node = "discovery"

\* C23: each step changes only the channels it writes: discovery changes
\* no channel; validation changes only validation_passed and
\* validation_feedback; each sub-task changes only findings and
\* agent_outputs; analysis changes only findings, agents_needed,
\* retry_count and errors; no step changes the run inputs pr_url, dry_run
\* and enable_diagrams.
C23_StepFrames ==
    [][/\ node = "discovery" => UNCHANGED channels
       /\ node = "critic"
             => UNCHANGED <<pr_metadata, file_changes, documentation_files,
                            documentation_status, findings, agent_outputs,
                            agents_needed, retry_count, markdown_report,
                            comment_url, errors>>
       /\ node \in SubTaskNodes
             => UNCHANGED <<pr_metadata, file_changes, documentation_files,
                            documentation_status, agents_needed,
                            validation_passed, validation_feedback,
                            retry_count, markdown_report, comment_url,
                            errors>>
       /\ node = "auditor"
             => UNCHANGED <<pr_metadata, file_changes, documentation_files,
                            documentation_status, agent_outputs,
                            validation_passed, validation_feedback,
                            markdown_report, comment_url>>
       /\ UNCHANGED <<pr_url, dry_run, enable_diagrams>>]_vars

\* discovery, analysis, a sub-task and validation have all run and each
\* has written its channels
C23_Witness ==
    /\ last = [step |-> "critic", failed |-> FALSE]
    /\ findings # <<>>
    /\ agent_outputs # <<>>
    /\ retry_count = 1
    /\ validation_feedback = "feedback"

C26_ScenarioA ==
    LET ins == MergeInputs
        add == {i \in 1..Len(ins) : ins[i].title = TitleAddConfig}
        doc == {i \in 1..Len(ins) : ins[i].title = TitleDocConfig}
    IN  /\ \A i \in add \cup doc :
              /\ _extract_concepts(ins[i].title \o ins[i].description)
                    = {"config"}
              /\ _generate_dedup_key(ins[i])
                    = <<"missing_doc", "README.md", {"config"}, <<>>>>
        /\ (m_phase = "merged" /\ Len(ins) = 2 /\ add # {} /\ doc # {})
              => Len(m_out) = 1 /\ Len(m_swapped) = 1

\* 'Add config section' on the left, 'Document configuration options' on
\* the right, merged into the one finding
C26_Witness ==
    /\ m_phase = "merged"
    /\ Len(m_left) = 1 /\ m_left[1].title = TitleAddConfig
    /\ Len(m_right) = 1 /\ m_right[1].title = TitleDocConfig
    /\ m_left[1].severity = m_right[1].severity
    /\ m_out = m_left

\* the findings stored when the last input finding arrives, and that
\* finding
StoredBeforeLast ==
    merge_findings(SubSeq(MergeInputs, 1, Len(MergeInputs) - 1), <<>>)
LastArrived == MergeInputs[Len(MergeInputs)]

\* C27: when an arriving finding has the key of a stored finding and is
\* strictly more severe, it replaces the stored one with all its own
\* fields, except that the stored replacement text is carried onto it
\* when the stored one has a non-empty text and the arriving one has not;
\* {medium, no text} followed by {high, 'text'} gives {high, 'text'}.
C27_MoreSevereReplaces ==
    (m_phase = "merged" /\ Len(MergeInputs) >= 2) =>
        LET acc == StoredBeforeLast
            new == LastArrived
            newKey == _generate_dedup_key(new)
        IN  \A k \in 1..Len(acc) :
                ( /\ _generate_dedup_key(acc[k]) = newKey
                  /\ SevPos(new.severity) < SevPos(acc[k].severity) )
                => /\ Len(m_out) = Len(acc)
                   /\ m_out[k] =
                         IF Truthy(acc[k].recommended_update)
                            /\ ~Truthy(new.recommended_update)
                         THEN [new EXCEPT !.recommended_update =
                                             acc[k].recommended_update]
                         ELSE new
                   /\ \A j \in 1..Len(acc) : j # k => m_out[j] = acc[j]

\* a medium finding with a text, then a high finding of its key with the
\* empty text: the high finding is kept and carries the stored text
C27_Witness ==
    /\ m_phase = "merged"
    /\ Len(m_left) = 1 /\ Len(m_right) = 1
    /\ SameKey(m_left[1], m_right[1])
    /\ m_left[1].severity = "medium" /\ m_left[1].recommended_update = "text1"
    /\ m_right[1].severity = "high" /\ m_right[1].recommended_update = ""
    /\ m_out = <<[m_right[1] EXCEPT !.recommended_update = "text1"]>>

\* C28: when an arriving finding has the key of a stored finding and is
\* not strictly more severe, the stored finding is kept with its severity,
\* id, title, description and every other field, and only its replacement
\* text is set to the arriving one's when the stored one lacks a
\* replacement text (None or empty) and the arriving one has one.
C28_StoredKept ==
    (m_phase = "merged" /\ Len(MergeInputs) >= 2) =>
        LET acc == StoredBeforeLast
            new == LastArrived
            newKey == _generate_dedup_key(new)
        IN  \A k \in 1..Len(acc) :
                ( /\ _generate_dedup_key(acc[k]) = newKey
                  /\ SevPos(new.severity) >= SevPos(acc[k].severity) )
                => /\ Len(m_out) = Len(acc)
                   /\ m_out[k] =
                         IF ~Truthy(acc[k].recommended_update)
                            /\ Truthy(new.recommended_update)
                         THEN [acc[k] EXCEPT !.recommended_update =
                                                new.recommended_update]
                         ELSE acc[k]
                   /\ \A j \in 1..Len(acc) : j # k => m_out[j] = acc[j]

\* C29: whenever the aggregator is entered validation_passed is true:
\* validate_analysis sets it once retry_count >= max_retries, so in a run
\* should_retry_analysis never takes its branch 'retry ceiling reached
\* and validation still failed'.
C29_AggregatorAfterPass ==
    /\ node = "aggregator" => validation_passed
    /\ (last.step = "critic" /\ ~validation_passed)
          => (retry_count < max_retries /\ node = "auditor")

\* the ceiling of one analysis is reached: the validation accepted without
\* asking and the run stands at the aggregator
C29_Witness ==
    /\ node = "aggregator"
    /\ last.step = "critic"
    /\ max_retries = 1
    /\ retry_count = 1
    /\ findings # <<>>
    /\ validation_passed
    /\ validation_feedback = MaxRetriesFeedback

\* C30: over a run the set of dedup keys present in findings never
\* shrinks: a finding merged by an earlier analysis or sub-task is still
\* represented in every later state, also after the validation rejected
\* the analysis and the auditor ran again.
C30_KeysNeverShrink ==
    [][KeysOf(findings) \subseteq KeysOf(findings')]_vars

\* the validator rejected, the auditor ran again with a finding of another
\* key, and the key of the first analysis is still in findings
C30_Witness ==
    /\ auditor_calls = 2
    /\ last = [step |-> "auditor", failed |-> FALSE]
    /\ ~validation_passed
    /\ Len(findings) = 2
    /\ Cardinality(KeysOf(findings)) = 2

\* the extractor has run and has left pr_metadata at None: the reference
\* did not parse or the fetch failed
ExtractorFailed == node # "extractor" /\ pr_metadata = NoneVal

\* the step invoked last and the step that is next, along the path
\* extractor, discovery, auditor, critic, aggregator, post_comment
FailurePath ==
    {<<"extractor", "discovery">>, <<"discovery", "auditor">>,
     <<"auditor", "critic">>, <<"critic", "aggregator">>,
     <<"aggregator", "post_comment">>, <<"post_comment", "END">>}

GraphNodes ==
    {"START", "extractor", "discovery", "repo_scanner", "auditor",
     "technical_writer_agent", "visual_architect_agent", "correction_agent",
     "critic", "aggregator", "post_comment", "END"}

\* the edges of build_main_graph: those of add_edge and, for a node with
\* a router, one to each node of its path map
GraphEdges ==
    {<<"START", "extractor">>, <<"extractor", "discovery">>,
     <<"repo_scanner", "auditor">>, <<"correction_agent", "critic">>,
     <<"aggregator", "post_comment">>, <<"post_comment", "END">>}
    \cup {<<a, b>> \in RoutedNodes \X GraphNodes : b \in Candidates(a)}

\* the edge the retry takes
RetryEdge == <<"critic", "auditor">>

\* the pairs of nodes joined by a path of one or more edges
RECURSIVE PathsOf(_)
PathsOf(edges) ==
    LET joined == {p \in edges \X edges : p[1][2] = p[2][1]}
        longer == edges \cup {<<p[1][1], p[2][2]>> : p \in joined}
    IN  IF longer = edges THEN edges ELSE PathsOf(longer)

PathsWithRetry == PathsOf(GraphEdges)
PathsWithoutRetry == PathsOf(GraphEdges \ {RetryEdge})

\* the nodes that lie on a cycle
OnCycle(paths) == {n \in GraphNodes : <<n, n>> \in paths}

\* C35: the edge from the critic back to the auditor is the only cycle of
\* the graph: without it the graph of build_main_graph is acyclic, and in
\* a run extractor, discovery, repo_scanner, aggregator and post_comment
\* are each executed at most once.
C35_OnlyCycle ==
    /\ [](/\ OnCycle(PathsWithoutRetry) = {}
          /\ OnCycle(PathsWithRetry) # {}
          /\ OnCycle(PathsWithRetry) \cap OnceNodes = {})
    /\ [][node' # "FAULT" => <<node, node'>> \in GraphEdges]_vars
    /\ [](\A n \in OnceNodes : executed[n] <= 1)

\* a run that took the retry edge once and has ended
C35_Witness ==
    /\ node = "END"
    /\ auditor_calls = 2
    /\ executed = [n \in OnceNodes |-> 1]

OrderShapes ==
    {shape \in FindingShapes :
        /\ shape.severity \in {"high", "low"}
        /\ shape.kind \in {"none", "text"}}

OInit ==
    /\ \E nl \in 0..MaxOrderLen, nr \in 0..MaxOrderLen :
          /\ nl + nr <= MaxOrderLen
          /\ \E l \in [1..nl -> OrderShapes], r \in [1..nr -> OrderShapes] :
                /\ m_left = [i \in 1..nl |-> WithId(l[i], i)]
                /\ m_right = [i \in 1..nr |-> WithId(r[i], nl + i)]
    /\ m_out = <<>>
    /\ m_swapped = <<>>
    /\ m_phase = "input"
    /\ GraphIdle
    /\ RouteIdle
    /\ ExtraIdle

OrderSpec == OInit /\ [][MNext]_vars

\* the dedup keys of a list of findings in the order of their first
\* occurrence
RECURSIVE FirstSeenKeys(_, _)
FirstSeenKeys(seen, rest) ==
    IF rest = <<>> THEN seen
    ELSE LET key == _generate_dedup_key(Head(rest))
         IN  FirstSeenKeys(IF InList(key, seen) THEN seen
                           ELSE Append(seen, key),
                           Tail(rest))

\* C31: merge_findings(left, right) returns the kept findings in the order
\* in which their dedup keys first occur in left followed by right;
\* replacing or patching the finding of a key does not move it.
C31_FirstSeenOrder ==
    m_phase = "merged" =>
        /\ Len(m_out) = Len(FirstSeenKeys(<<>>, MergeInputs))
        /\ \A k \in 1..Len(m_out) :
              _generate_dedup_key(m_out[k])
                 = FirstSeenKeys(<<>>, MergeInputs)[k]

\* a low finding, a finding of another key, then a high finding of the
\* first key: the high finding stands first, the other key second
C31_Witness ==
    /\ m_phase = "merged"
    /\ Len(m_left) = 2 /\ Len(m_right) = 1
    /\ ~SameKey(m_left[1], m_left[2])
    /\ SameKey(m_left[1], m_right[1])
    /\ m_left[1].severity = "low" /\ m_right[1].severity = "high"
    /\ Len(m_out) = 2
    /\ m_out[1].id = m_right[1].id
    /\ m_out[2] = m_left[2]

(***************************************************************************)
(* CommentSpec: PRCommenter.update_or_create_comment (github/commenter.py) *)
(* with the two client calls it makes (github/client.py).  A comment body  *)
(* is a sequence of pieces of text; "marker in body" holds when the marker *)
(* is one of the pieces.  The comments of the pull request are what the    *)
(* GET of find_comment_by_marker answers.                                  *)
(***************************************************************************)
OMNI_DOC_MARKER == "<!-- omni-doc-analysis -->"

\* bodies of the comments a pull request may hold
CommentBodies ==
    {<<"LGTM">>,
     <<OMNI_DOC_MARKER, "\n", "old report">>,
     <<"> ", OMNI_DOC_MARKER>>}

\* bodies handed to update_or_create_comment
ReportBodies == {<<>>, <<"report">>, <<OMNI_DOC_MARKER, "\n", "report">>}

\* the id GitHub gave the n-th comment of the pull request; ids are
\* positive integers
CommentId(n) ==
    CASE n = 1 -> "id-101"
      [] n = 2 -> "id-102"
      [] n = 3 -> "id-103"
      [] n = 4 -> "id-104"
      [] OTHER -> "id-105"

\* bool(x) of an Optional[int] that holds a comment id: None is falsy, a
\* positive integer is truthy
TruthyId(x) == x # NoneVal

\* f"{OMNI_DOC_MARKER}\n{body}"
marked_body(body) == <<OMNI_DOC_MARKER, "\n">> \o body

\* find_comment_by_marker that looks at the start of the body only
find_comment_by_marker_at_start(comments, marker) ==
    LET hits == {i \in 1..Len(comments) :
                    comments[i].body # <<>> /\ comments[i].body[1] = marker}
    IN  IF hits = {} THEN NoneVal
        ELSE comments[CHOOSE i \in hits : \A j \in hits : i <= j].id

\* client.find_comment_by_marker: the id of the first comment whose body
\* holds the marker, None when there is none
find_comment_by_marker(comments, marker) ==
    LET hits == {i \in 1..Len(comments) : InList(marker, comments[i].body)}
    IN  IF hits = {} THEN NoneVal
        ELSE comments[CHOOSE i \in hits : \A j \in hits : i <= j].id

CInit ==
    /\ \E n \in 0..MaxComments :
          \E bodies \in [1..n -> CommentBodies] :
             c_comments = [i \in 1..n |-> [id |-> CommentId(i),
                                            body |-> bodies[i]]]
    /\ c_before = c_comments
    /\ c_body \in ReportBodies
    /\ c_phase = "start"
    /\ c_existing_id = NoneVal
    /\ c_calls = <<>>
    /\ c_url = NoneVal
    /\ GraphIdle
    /\ MergeIdle
    /\ RouteIdle
    /\ ServerIdle
    /\ ConcurrentIdle

\* "existing_id = await client.find_comment_by_marker(...)"; a failure of
\* the request leaves as GitHubAPIError
FindComment ==
    /\ c_phase = "start"
    /\ \/ /\ c_existing_id' = find_comment_by_marker(c_comments,
                                                     OMNI_DOC_MARKER)
          /\ c_phase' = "found"
       \/ /\ c_phase' = "failed"
          /\ UNCHANGED c_existing_id
    /\ UNCHANGED <<c_comments, c_before, c_body, c_calls, c_url, gvars,
                   mvars, rvars, svars, kvars>>

\* "if existing_id:" client.post_comment(..., comment_id=existing_id), the
\* PATCH of that comment
UpdateComment ==
    /\ c_phase = "found"
    /\ TruthyId(c_existing_id)
    /\ c_calls' = Append(c_calls, [body |-> marked_body(c_body),
                                   comment_id |-> c_existing_id])
    /\ \/ /\ c_comments' =
                [i \in 1..Len(c_comments) |->
                    IF c_comments[i].id = c_existing_id
                    THEN [c_comments[i] EXCEPT !.body = marked_body(c_body)]
                    ELSE c_comments[i]]
          /\ c_url' = c_existing_id
          /\ c_phase' = "done"
       \/ /\ c_phase' = "failed"
          /\ UNCHANGED <<c_comments, c_url>>
    /\ UNCHANGED <<c_before, c_body, c_existing_id, gvars, mvars, rvars,
                   svars, kvars>>

\* "else:" client.post_comment(...) without comment_id, the POST of a new
\* comment
CreateComment ==
    /\ c_phase = "found"
    /\ ~TruthyId(c_existing_id)
    /\ c_calls' = Append(c_calls, [body |-> marked_body(c_body),
                                   comment_id |-> NoneVal])
    /\ \/ /\ c_comments' = Append(c_comments,
                               [id |-> CommentId(Len(c_comments) + 1),
                                body |-> marked_body(c_body)])
          /\ c_url' = CommentId(Len(c_comments) + 1)
          /\ c_phase' = "done"
       \/ /\ c_phase' = "failed"
          /\ UNCHANGED <<c_comments, c_url>>
    /\ UNCHANGED <<c_before, c_body, c_existing_id, gvars, mvars, rvars,
                   svars, kvars>>

CNext == FindComment \/ UpdateComment \/ CreateComment

CommentSpec == CInit /\ [][CNext]_vars

\* the comments of a list that carry the marker
Marked(comments) ==
    {i \in 1..Len(comments) : InList(OMNI_DOC_MARKER, comments[i].body)}

\* C24: update_or_create_comment first looks for a comment that carries
\* the marker; if there is one it updates that comment, passing its id,
\* and creates no comment; if there is none it creates exactly one
\* comment; the body written always starts with the marker.
C24_UpdateOrCreate ==
    /\ c_calls # <<>> => c_phase \in {"done", "failed"}
    /\ Len(c_calls) <= 1
    /\ \A k \in 1..Len(c_calls) :
          /\ c_calls[k].body[1] = OMNI_DOC_MARKER
          /\ Marked(c_before) # {}
                => \E i \in Marked(c_before) :
                      /\ c_calls[k].comment_id = c_before[i].id
                      /\ \A j \in Marked(c_before) : i <= j
          /\ Marked(c_before) = {} => c_calls[k].comment_id = NoneVal
    /\ Marked(c_before) # {} => Len(c_comments) = Len(c_before)
    /\ (Marked(c_before) = {} /\ c_phase = "done")
          => /\ Len(c_comments) = Len(c_before) + 1
             /\ SubSeq(c_comments, 1, Len(c_before)) = c_before
    /\ Marked(c_before) = {} => Len(c_comments) <= Len(c_before) + 1
    /\ c_phase = "done"
          => \E i \in 1..Len(c_comments) :
                /\ c_comments[i].id = c_url
                /\ c_comments[i].body = marked_body(c_body)

\* a comment that quotes the marker is the second comment of the pull
\* request: it has been updated and no comment was created
C24_Witness ==
    /\ c_phase = "done"
    /\ Len(c_before) = 2
    /\ Marked(c_before) = {2}
    /\ c_before[2].body[1] # OMNI_DOC_MARKER
    /\ c_calls = <<[body |-> marked_body(c_body), comment_id |-> CommentId(2)]>>
    /\ Len(c_comments) = 2

(***************************************************************************)
(* ServerSpec: the MCP tools analyze_pr and get_analysis_status and the    *)
(* background task _run_analysis over the module dict _analyses            *)
(* (mcp/server.py).  The dict is a function from the registered ids.  The  *)
(* statements of analyze_pr are separate steps, so that the other          *)
(* coroutines may run between any two of them.                             *)
(***************************************************************************)
\* analyze_pr that leaves the registration out
RegisterNothing(analyses, id) == analyses

\* "_analyses[analysis_id] = analysis.model_dump()"
Register(analyses, id) ==
    [k \in DOMAIN analyses \cup {id} |->
        IF k = id
        THEN [status |-> "pending", progress |-> 0,
              current_step |-> "initializing", error |-> NoneVal,
              result |-> NoResult]
        ELSE analyses[k]]

\* _update_analysis that leaves the result out
_update_analysis_drops_result(analyses, id, status, progress, current_step, error, result) ==
    IF id \notin DOMAIN analyses THEN analyses
    ELSE [analyses EXCEPT
            ![id] = [status |-> status,
                     progress |-> progress,
                     current_step |-> IF current_step = NoneVal
                                      THEN @.current_step ELSE current_step,
                     error |-> IF error = NoneVal THEN @.error ELSE error,
                     result |-> @.result]]

\* _update_analysis(analysis_id, status=..., progress=..., current_step=...,
\* error=..., result=...); None leaves a field as it is
_update_analysis(analyses, id, status, progress, current_step, error, result) ==
    IF id \notin DOMAIN analyses THEN analyses
    ELSE [analyses EXCEPT
            ![id] = [status |-> status,
                     progress |-> progress,
                     current_step |-> IF current_step = NoneVal
                                      THEN @.current_step ELSE current_step,
                     error |-> IF error = NoneVal THEN @.error ELSE error,
                     result |-> IF result = NoResult
                                THEN @.result ELSE result]]

\* get_analysis_status(analysis_id)
get_analysis_status(analyses, id) ==
    IF id \notin DOMAIN analyses
    THEN [analysis_id |-> id, status |-> "not_found", progress |-> 0,
          current_step |-> NoneVal, error |-> "Analysis not found"]
    ELSE [analysis_id |-> id,
          status |-> analyses[id].status,
          progress |-> analyses[id].progress,
          current_step |-> analyses[id].current_step,
          error |-> analyses[id].error]

\* what "'; '.join(errors)" or "str(e)" stores
RunErrors == {"errors", "exception"}

\* the keys of the final state that _run_analysis keeps, lines 117-119
FinalStates ==
    [findings : {<<>>, <<"finding">>},
     markdown_report : {"# Report"},
     comment_url : {NoneVal}]

\* "result.get(...)" when result is None
AttributeError == [raised |-> TRUE]

\* list_findings(analysis_id): "analysis.get('result', {})" is the stored
\* value whenever the key is there, and model_dump() puts it there
list_findings(analyses, id) ==
    IF id \notin DOMAIN analyses
    THEN [raised |-> FALSE, total_count |-> 0]
    ELSE LET result == analyses[id].result
         IN IF result = NoResult
            THEN AttributeError
            ELSE [raised |-> FALSE,
                  total_count |-> Len(result[1].findings)]

\* get_analysis_result(analysis_id)
get_analysis_result(analyses, id) ==
    IF id \notin DOMAIN analyses
    THEN [raised |-> FALSE, status |-> "not_found",
          markdown_report |-> NoneVal, findings_count |-> 0]
    ELSE LET result == analyses[id].result
         IN IF result = NoResult
            THEN AttributeError
            ELSE [raised |-> FALSE, status |-> analyses[id].status,
                  markdown_report |-> result[1].markdown_report,
                  findings_count |-> Len(result[1].findings)]

SInit ==
    /\ s_analyses = <<>>
    /\ s_task = [id \in AnalysisIds |-> "none"]
    /\ s_call = NoCall
    /\ s_returned = {}
    /\ s_reply = NoReply
    /\ s_answer = NoAnswer
    /\ GraphIdle
    /\ MergeIdle
    /\ RouteIdle
    /\ CommentIdle
    /\ ConcurrentIdle

ServerFrame == UNCHANGED <<gvars, mvars, rvars, cvars, kvars>>

\* analyze_pr, lines 59-66: a fresh uuid4 is drawn and registered
AnalyzeRegister ==
    /\ s_call.pc = "idle"
    /\ Cardinality(DOMAIN s_analyses) < MaxAnalyses
    /\ \E id \in AnalysisIds \ DOMAIN s_analyses :
          /\ s_task[id] = "none"
          /\ s_analyses' = Register(s_analyses, id)
          /\ s_call' = [id |-> id, pc |-> "registered"]
    /\ UNCHANGED <<s_task, s_returned, s_reply, s_answer>>
    /\ ServerFrame

\* analyze_pr, line 69: asyncio.create_task(_run_analysis(...))
AnalyzeCreateTask ==
    /\ s_call.pc = "registered"
    /\ s_task' = [s_task EXCEPT ![s_call.id] = "created"]
    /\ s_call' = [s_call EXCEPT !.pc = "spawned"]
    /\ UNCHANGED <<s_analyses, s_returned, s_reply, s_answer>>
    /\ ServerFrame

\* analyze_pr, lines 71-76: the id goes back to the caller
AnalyzeReturn ==
    /\ s_call.pc = "spawned"
    /\ s_returned' = s_returned \cup {s_call.id}
    /\ s_call' = NoCall
    /\ UNCHANGED <<s_analyses, s_task, s_reply, s_answer>>
    /\ ServerFrame

\* _run_analysis, line 94
RunStart ==
    \E id \in AnalysisIds :
       /\ s_task[id] = "created"
       /\ s_analyses' = _update_analysis(s_analyses, id, "running", 10,
                                         "extracting PR data", NoneVal,
                                         NoResult)
       /\ s_task' = [s_task EXCEPT ![id] = "started"]
       /\ UNCHANGED <<s_call, s_returned, s_reply, s_answer>>
       /\ ServerFrame

\* _run_analysis, line 111, up to "await graph.ainvoke(initial_state)"
RunWorkflow ==
    \E id \in AnalysisIds :
       /\ s_task[id] = "started"
       /\ s_analyses' = _update_analysis(s_analyses, id, "running", 20,
                                         "running analysis workflow", NoneVal,
                                         NoResult)
       /\ s_task' = [s_task EXCEPT ![id] = "invoked"]
       /\ UNCHANGED <<s_call, s_returned, s_reply, s_answer>>
       /\ ServerFrame

\* _run_analysis, lines 116-149: the workflow ended with errors or raised
\* (failed), or ended without errors (completed, with the result dict)
RunFinish ==
    \E id \in AnalysisIds :
       /\ s_task[id] = "invoked"
       /\ \/ \E error \in RunErrors :
                s_analyses' = _update_analysis(s_analyses, id, "failed", 100,
                                               NoneVal, error, NoResult)
          \/ \E final_state \in FinalStates :
                s_analyses' = _update_analysis(s_analyses, id, "completed",
                                               100, "done", NoneVal,
                                               <<final_state>>)
       /\ s_task' = [s_task EXCEPT ![id] = "finished"]
       /\ UNCHANGED <<s_call, s_returned, s_reply, s_answer>>
       /\ ServerFrame

\* a client calls list_findings or get_analysis_result with any id
ReadResult ==
    /\ \E id \in AnalysisIds \cup {UnknownId} :
       \E tool \in {"list_findings", "get_analysis_result"} :
          s_answer' =
             [tool |-> tool,
              status_then |-> IF id \in DOMAIN s_analyses
                              THEN s_analyses[id].status ELSE NoneVal,
              was_registered |-> id \in DOMAIN s_analyses,
              outcome |-> IF tool = "list_findings"
                          THEN list_findings(s_analyses, id)
                          ELSE get_analysis_result(s_analyses, id)]
    /\ UNCHANGED <<s_analyses, s_task, s_call, s_returned, s_reply>>
    /\ ServerFrame

\* a client calls get_analysis_status with any id
GetStatus ==
    /\ \E id \in AnalysisIds \cup {UnknownId} :
          s_reply' = [was_returned |-> id \in s_returned,
                      was_registered |-> id \in DOMAIN s_analyses]
                     @@ get_analysis_status(s_analyses, id)
    /\ UNCHANGED <<s_analyses, s_task, s_call, s_returned, s_answer>>
    /\ ServerFrame

SNext ==
    \/ AnalyzeRegister
    \/ AnalyzeCreateTask
    \/ AnalyzeReturn
    \/ RunStart
    \/ RunWorkflow
    \/ RunFinish
    \/ GetStatus
    \/ ReadResult

ServerSpec == SInit /\ [][SNext]_vars

\* C25: analyze_pr registers the analysis with status pending and
\* progress 0 before it starts the background task and before it returns;
\* so get_analysis_status never answers not_found for an id analyze_pr has
\* returned, however the background task is interleaved, and an id that
\* was never registered gets not_found with the error 'Analysis not found'.
C25_RegisteredBeforeReturn ==
    /\ [](/\ \A id \in AnalysisIds :
                (s_task[id] # "none" \/ id \in s_returned)
                    => id \in DOMAIN s_analyses
          /\ s_reply.was_returned => s_reply.status # "not_found"
          /\ (s_reply # NoReply /\ ~s_reply.was_registered)
                => /\ s_reply.status = "not_found"
                   /\ s_reply.error = "Analysis not found")
    /\ [][\A id \in AnalysisIds :
             (id \notin DOMAIN s_analyses /\ id \in DOMAIN s_analyses')
                => /\ s_analyses'[id].status = "pending"
                   /\ s_analyses'[id].progress = 0
                   /\ s_task[id] = "none"
                   /\ id \notin s_returned']_vars

\* the status of a returned id was asked when its background task had
\* not yet made its first update: the answer is pending with progress 0
C25_Witness ==
    /\ s_reply.was_returned
    /\ s_reply.status = "pending"
    /\ s_reply.progress = 0
    /\ s_task[s_reply.analysis_id] = "created"

\* C33: for an analysis registered by analyze_pr, list_findings and
\* get_analysis_result return a normal output in every lifecycle state:
\* before completion and after a failure they report no findings and no
\* report, and they never fail with an error.
C33_ReadNeverFails ==
    s_answer.was_registered
        => /\ ~s_answer.outcome.raised
           /\ s_answer.status_then # "completed"
                => IF s_answer.tool = "list_findings"
                   THEN s_answer.outcome.total_count = 0
                   ELSE /\ s_answer.outcome.findings_count = 0
                        /\ s_answer.outcome.markdown_report = NoneVal

\* the changes of status that move an analysis forward
StatusMoves ==
    {<<"pending", "running">>, <<"running", "completed">>,
     <<"running", "failed">>}

\* C36: the status of a registered analysis only moves forward, pending
\* to running to completed or failed; completed and failed are never
\* left, progress never decreases, the stored result is non-null exactly
\* when the status is completed, and a run that ends with a non-empty
\* error list is recorded as failed with no result.
C36_StatusForward ==
    /\ [][\A id \in DOMAIN s_analyses :
             /\ id \in DOMAIN s_analyses'
             /\ \/ s_analyses'[id].status = s_analyses[id].status
                \/ <<s_analyses[id].status, s_analyses'[id].status>>
                      \in StatusMoves
             /\ s_analyses'[id].progress >= s_analyses[id].progress]_vars
    /\ [](\A id \in DOMAIN s_analyses :
             /\ s_analyses[id].result # NoResult
                   <=> s_analyses[id].status = "completed"
             /\ s_analyses[id].error # NoneVal
                   => /\ s_analyses[id].status = "failed"
                      /\ s_analyses[id].result = NoResult
                      /\ s_analyses[id].progress = 100)

\* one analysis has ended with errors and no result, another has
\* completed with its result
C36_Witness ==
    \E failed, completed \in DOMAIN s_analyses :
       /\ s_analyses[failed].status = "failed"
       /\ s_analyses[failed].error = "errors"
       /\ s_analyses[failed].result = NoResult
       /\ s_analyses[completed].status = "completed"
       /\ s_analyses[completed].result # NoResult
       /\ s_analyses[completed].result[1].findings # <<>>

(***************************************************************************)
(* ConcurrentSpec: several calls of update_or_create_comment on one pull   *)
(* request (github/commenter.py), from runs started by analyze_pr as       *)
(* tasks of one event loop (mcp/server.py line 69) or by separate          *)
(* processes.  Each call awaits its lookup and then its write, so the      *)
(* other calls may run between the two.                                    *)
(***************************************************************************)
KInit ==
    /\ k_comments \in {<<>>, <<[id |-> CommentId(1), body |-> <<"LGTM">>]>>}
    /\ k_body \in [Callers -> ReportBodies \ {<<>>}]
    /\ k_phase = [p \in Callers |-> "start"]
    /\ k_existing_id = [p \in Callers |-> NoneVal]
    /\ GraphIdle
    /\ MergeIdle
    /\ RouteIdle
    /\ CommentIdle
    /\ ServerIdle

ConcurrentFrame == UNCHANGED <<gvars, mvars, rvars, cvars, svars>>

\* "existing_id = await client.find_comment_by_marker(...)" of call p
KFind(p) ==
    /\ k_phase[p] = "start"
    /\ \/ /\ k_existing_id' =
                [k_existing_id EXCEPT
                    ![p] = find_comment_by_marker(k_comments, OMNI_DOC_MARKER)]
          /\ k_phase' = [k_phase EXCEPT ![p] = "found"]
       \/ /\ k_phase' = [k_phase EXCEPT ![p] = "failed"]
          /\ UNCHANGED k_existing_id
    /\ UNCHANGED <<k_comments, k_body>>
    /\ ConcurrentFrame

\* "if existing_id:" the PATCH of that comment by call p
KUpdate(p) ==
    /\ k_phase[p] = "found"
    /\ TruthyId(k_existing_id[p])
    /\ \/ /\ k_comments' =
                [i \in 1..Len(k_comments) |->
                    IF k_comments[i].id = k_existing_id[p]
                    THEN [k_comments[i] EXCEPT !.body = marked_body(k_body[p])]
                    ELSE k_comments[i]]
          /\ k_phase' = [k_phase EXCEPT ![p] = "done"]
       \/ /\ k_phase' = [k_phase EXCEPT ![p] = "failed"]
          /\ UNCHANGED k_comments
    /\ UNCHANGED <<k_body, k_existing_id>>
    /\ ConcurrentFrame

\* "else:" the POST of a new comment by call p
KCreate(p) ==
    /\ k_phase[p] = "found"
    /\ ~TruthyId(k_existing_id[p])
    /\ \/ /\ k_comments' = Append(k_comments,
                               [id |-> CommentId(Len(k_comments) + 1),
                                body |-> marked_body(k_body[p])])
          /\ k_phase' = [k_phase EXCEPT ![p] = "done"]
       \/ /\ k_phase' = [k_phase EXCEPT ![p] = "failed"]
          /\ UNCHANGED k_comments
    /\ UNCHANGED <<k_body, k_existing_id>>
    /\ ConcurrentFrame

KNext == \E p \in Callers : KFind(p) \/ KUpdate(p) \/ KCreate(p)

ConcurrentSpec == KInit /\ [][KNext]_vars

\* C32: after any calls of update_or_create_comment on a pull request that
\* starts without a marked comment, calls whose lookup and write
\* interleave included, the pull request has at most one comment that
\* carries the marker.
C32_AtMostOneMarked == Cardinality(Marked(k_comments)) <= 1

====
